---------------------------- MODULE Spec2Model ----------------------------
(***************************************************************************)
(* A model of the two assembler front-ends of the repository and of the    *)
(* binary encoder:                                                         *)
(*   src/assembler.py   class UVBMAssembler (parse_line, the four command  *)
(*                      handlers, assemble with its 11-byte record writer) *)
(*   src/assembler1.py  parse_number, tokenize_operands, assemble_line,    *)
(*                      assemble_text                                      *)
(*                                                                         *)
(* Text is a sequence of one-character strings.  A Python int is a record  *)
(* [neg, mag] with mag its magnitude in base 256, least significant limb   *)
(* first and no high zero limb: Python ints are unbounded and the fields   *)
(* B and C are 32 bits wide, so a machine integer of the checker cannot    *)
(* hold them.                                                              *)
(***************************************************************************)
EXTENDS Integers, Sequences, FiniteSets, TLC

(***************************************************************************)
(* Characters and Python's str methods                                     *)
(***************************************************************************)
Lower == <<"a","b","c","d","e","f","g","h","i","j","k","l","m",
           "n","o","p","q","r","s","t","u","v","w","x","y","z">>

Upper == <<"A","B","C","D","E","F","G","H","I","J","K","L","M",
           "N","O","P","Q","R","S","T","U","V","W","X","Y","Z">>

DecDigits == <<"0","1","2","3","4","5","6","7","8","9">>

\* str.isspace() on the ASCII characters a line can hold
IsSpace(c) == c \in {" ", "\t", "\n", "\r"}

LowerSet == { Lower[i] : i \in 1..26 }

LetterSet == LowerSet \cup { Upper[i] : i \in 1..26 }

DecDigitSet == { DecDigits[i] : i \in 1..10 }

HexLetterSet == { Lower[i] : i \in 1..6 } \cup { Upper[i] : i \in 1..6 }

IsLetter(c) == c \in LetterSet

IsDecDigit(c) == c \in DecDigitSet

DecValue == [c \in DecDigitSet |-> (CHOOSE i \in 1..10 : DecDigits[i] = c) - 1]

HexLetterValue ==
    [c \in HexLetterSet |-> 9 + (CHOOSE i \in 1..6 : Lower[i] = c \/ Upper[i] = c)]

\* the value of a digit character in the given base, or -1
DigitVal(c, base) ==
    IF c \in DecDigitSet THEN DecValue[c]
    ELSE IF base = 16 /\ c \in HexLetterSet THEN HexLetterValue[c]
    ELSE -1

UpperOf == [c \in LowerSet |-> Upper[CHOOSE i \in 1..26 : Lower[i] = c]]

\* str.upper(), character by character
UpChar(c) == IF c \in LowerSet THEN UpperOf[c] ELSE c

upper(s) == [i \in 1..Len(s) |-> UpChar(s[i])]

RECURSIVE lstrip(_)
lstrip(s) == IF s # <<>> /\ IsSpace(Head(s)) THEN lstrip(Tail(s)) ELSE s

RECURSIVE rstrip(_)
rstrip(s) == IF s # <<>> /\ IsSpace(s[Len(s)])
             THEN rstrip(SubSeq(s, 1, Len(s) - 1))
             ELSE s

\* str.strip()
strip(s) == rstrip(lstrip(s))

\* the index of the first character of s at or after i that is in the set
\* cs, or 0
RECURSIVE FirstFrom(_, _, _)
FirstFrom(s, cs, i) ==
    IF i > Len(s) THEN 0
    ELSE IF s[i] \in cs THEN i
    ELSE FirstFrom(s, cs, i + 1)

FirstIn(s, cs) == FirstFrom(s, cs, 1)

\* str.split(sep) for a one-character separator: never an empty list
RECURSIVE split(_, _)
split(s, sep) ==
    LET i == FirstIn(s, {sep})
    IN  IF i = 0 THEN <<s>>
        ELSE <<SubSeq(s, 1, i - 1)>> \o split(SubSeq(s, i + 1, Len(s)), sep)

\* str.startswith(p)
startswith(s, p) == Len(s) >= Len(p) /\ SubSeq(s, 1, Len(p)) = p

(***************************************************************************)
(* Python ints                                                             *)
(***************************************************************************)
\* the magnitude mag * m + carry, for small m and carry
RECURSIVE MulAdd(_, _, _)
MulAdd(mag, m, carry) ==
    IF mag = <<>>
    THEN IF carry = 0 THEN <<>>
         ELSE <<carry % 256>> \o MulAdd(<<>>, m, carry \div 256)
    ELSE LET t == Head(mag) * m + carry
         IN  <<t % 256>> \o MulAdd(Tail(mag), m, t \div 256)

\* drop the high zero limbs
RECURSIVE Normal(_)
Normal(mag) == IF mag # <<>> /\ mag[Len(mag)] = 0
               THEN Normal(SubSeq(mag, 1, Len(mag) - 1))
               ELSE mag

RECURSIVE NatMag(_)
NatMag(n) == IF n = 0 THEN <<>> ELSE <<n % 256>> \o NatMag(n \div 256)

\* the Python int n, for a natural number n
PyNat(n) == [neg |-> FALSE, mag |-> NatMag(n)]

PyNeg(n) == [neg |-> n # 0, mag |-> NatMag(n)]

\* Python's None (the D of an instruction that has none)
None == [none |-> TRUE]

ValueError == [error |-> "ValueError"]

SyntaxError == [error |-> "SyntaxError"]

StructError == [error |-> "struct.error"]

IsError(r) == "error" \in DOMAIN r

\* the digits of an int literal: digit characters, single underscores only
\* between two digits
DigitsOk(s, base) ==
    /\ s # <<>>
    /\ \A i \in 1..Len(s) : s[i] = "_" \/ DigitVal(s[i], base) >= 0
    /\ s[1] # "_" /\ s[Len(s)] # "_"
    /\ \A i \in 1..(Len(s) - 1) : ~(s[i] = "_" /\ s[i + 1] = "_")

RECURSIVE DigitsMag(_, _, _)
DigitsMag(s, base, acc) ==
    IF s = <<>> THEN acc
    ELSE IF Head(s) = "_" THEN DigitsMag(Tail(s), base, acc)
    ELSE DigitsMag(Tail(s), base, MulAdd(acc, base, DigitVal(Head(s), base)))

\* the digits w of a literal, with its sign
IntOfDigits(w, base, minus) ==
    IF DigitsOk(w, base)
    THEN [neg |-> minus /\ DigitsMag(w, base, <<>>) # <<>>,
          mag |-> DigitsMag(w, base, <<>>)]
    ELSE ValueError

\* base 16 accepts one underscore between the 0x prefix and the digits
AfterPrefix(v, base, minus) ==
    IF v # <<>> /\ v[1] = "_" THEN IntOfDigits(Tail(v), base, minus)
    ELSE IntOfDigits(v, base, minus)

\* the literal u after its sign: base 16 accepts a 0x prefix
Unsigned(u, base, minus) ==
    IF base = 16 /\ Len(u) >= 2 /\ u[1] = "0" /\ u[2] \in {"x", "X"}
    THEN AfterPrefix(SubSeq(u, 3, Len(u)), base, minus)
    ELSE IntOfDigits(u, base, minus)

Signed(t, base) ==
    IF t # <<>> /\ t[1] \in {"+", "-"}
    THEN Unsigned(Tail(t), base, t[1] = "-")
    ELSE Unsigned(t, base, FALSE)

\* int(s, base) of Python for base 10 and base 16: surrounding white space
\* is dropped, a sign is accepted, and single underscores separate digits
int(s, base) == Signed(strip(s), base)

(***************************************************************************)
(* src/assembler.py: the command handlers and parse_line                   *)
(***************************************************************************)
kwLOAD_CONST == <<"L","O","A","D","_","C","O","N","S","T">>

kwREAD_MEM == <<"R","E","A","D","_","M","E","M">>

kwWRITE_MEM == <<"W","R","I","T","E","_","M","E","M">>

kwMIN == <<"M","I","N">>

kwREAD == <<"R","E","A","D">>

kwWRITE == <<"W","R","I","T","E">>

\* int(x) of a handler: base 10
ints(parts) == [i \in 1..Len(parts) |-> int(parts[i], 10)]

AnyError(vals, idx) == \E i \in idx : IsError(vals[i])

\* parts[0] is the command name; Python's parts[k] is parts[k + 1] here
_load_const(parts) ==
    IF Len(parts) # 3 THEN SyntaxError
    ELSE LET v == ints(parts)
             dest_addr == v[2]
             const_val == v[3]
         IN  IF AnyError(v, 2..3) THEN ValueError
             ELSE [A |-> 3, B |-> const_val, C |-> dest_addr, D |-> None]

_read_mem(parts) ==
    IF Len(parts) # 3 THEN SyntaxError
    ELSE LET v == ints(parts)
             dest_addr == v[2]
             src_addr == v[3]
         IN  IF AnyError(v, 2..3) THEN ValueError
             ELSE [A |-> 0, B |-> src_addr, C |-> dest_addr, D |-> None]

\* _write_mem reading its operands as <addr_dest>, <addr_src>
_write_mem_swapped(parts) ==
    IF Len(parts) # 3 THEN SyntaxError
    ELSE IF AnyError(ints(parts), 2..3) THEN ValueError
    ELSE [A |-> 5, B |-> ints(parts)[3], C |-> ints(parts)[2], D |-> None]

_write_mem(parts) ==
    IF Len(parts) # 3 THEN SyntaxError
    ELSE LET v == ints(parts)
             src_addr == v[2]
             dest_addr == v[3]
         IN  IF AnyError(v, 2..3) THEN ValueError
             ELSE [A |-> 5, B |-> src_addr, C |-> dest_addr, D |-> None]

_min_op(parts) ==
    IF Len(parts) # 4 THEN SyntaxError
    ELSE LET v == ints(parts)
             result_addr == v[2]
             op1_addr == v[3]
             op2_addr == v[4]
         IN  IF AnyError(v, 2..4) THEN ValueError
             ELSE [A |-> 7, B |-> op1_addr, C |-> op2_addr, D |-> result_addr]

\* self.commands
commands == {kwLOAD_CONST, kwREAD_MEM, kwWRITE_MEM, kwMIN}

\* parse_line skipping a line whose command it does not know
parse_line_skipping_unknown(line0) ==
    LET line == strip(line0)
        parts == split(line, ",")
        cmd_name == upper(strip(parts[1]))
    IN  IF line = <<>> \/ startswith(line, <<";">>) THEN None
        ELSE IF cmd_name = kwLOAD_CONST THEN _load_const(parts)
        ELSE IF cmd_name = kwREAD_MEM THEN _read_mem(parts)
        ELSE IF cmd_name = kwWRITE_MEM THEN _write_mem(parts)
        ELSE IF cmd_name = kwMIN THEN _min_op(parts)
        ELSE None

\* parse_line: None for a line to skip, the instruction, or the exception
parse_line(line0) ==
    LET line == strip(line0)
    IN  IF line = <<>> \/ startswith(line, <<";">>) THEN None
        ELSE LET parts == split(line, ",")
                 cmd_name == upper(strip(parts[1]))
             IN  IF cmd_name \notin commands THEN SyntaxError
                 ELSE IF cmd_name = kwLOAD_CONST THEN _load_const(parts)
                 ELSE IF cmd_name = kwREAD_MEM THEN _read_mem(parts)
                 ELSE IF cmd_name = kwWRITE_MEM THEN _write_mem(parts)
                 ELSE _min_op(parts)

(***************************************************************************)
(* src/assembler1.py: parse_number, tokenize_operands, assemble_line       *)
(***************************************************************************)
\* MNEMONICS
MNEMONICS == {kwLOAD_CONST, kwREAD, kwWRITE, kwMIN}

MnemonicCode(m) == IF m = kwLOAD_CONST THEN 3
                   ELSE IF m = kwREAD THEN 0
                   ELSE IF m = kwWRITE THEN 5
                   ELSE 7

parse_number(tok0) ==
    LET tok == strip(tok0)
    IN  IF tok = <<>> THEN ValueError
        ELSE IF Len(tok) >= 2 /\ tok[1] = "0" /\ tok[2] \in {"x", "X"}
             THEN int(tok, 16)
             ELSE int(tok, 10)

SelectNonEmpty(ps) == SelectSeq(ps, LAMBDA p : p # <<>>)

tokenize_operands(ops_str) ==
    LET ps == split(ops_str, ",")
    IN  SelectNonEmpty([i \in 1..Len(ps) |-> strip(ps[i])])

\* re.split(r'[;#]', line, 1)[0]
BeforeComment(line) ==
    LET i == FirstIn(line, {";", "#"})
    IN  IF i = 0 THEN line ELSE SubSeq(line, 1, i - 1)

IsIdentStart(c) == IsLetter(c) \/ c = "_"

IsIdentChar(c) == IsLetter(c) \/ IsDecDigit(c) \/ c = "_"

\* the length of the longest prefix of s made of identifier characters
RECURSIVE IdentLen(_)
IdentLen(s) == IF s # <<>> /\ IsIdentChar(Head(s)) THEN 1 + IdentLen(Tail(s)) ELSE 0

numbers(operands) == [i \in 1..Len(operands) |-> parse_number(operands[i])]

\* assemble_line: None for a line to skip, the instruction (a dict with no
\* key D unless the mnemonic is MIN), or ValueError
assemble_line(line) ==
    LET code == strip(BeforeComment(line))
    IN  IF code = <<>> THEN None
        ELSE IF ~IsIdentStart(code[1]) THEN ValueError   \* _token_re does not match
        ELSE LET n == IdentLen(code)
                 mnemonic == upper(SubSeq(code, 1, n))
                 rest == strip(SubSeq(code, n + 1, Len(code)))
             IN  IF mnemonic \notin MNEMONICS THEN ValueError
                 ELSE LET A == MnemonicCode(mnemonic)
                          operands == IF rest # <<>> THEN tokenize_operands(rest) ELSE <<>>
                          v == numbers(operands)
                          want == IF mnemonic = kwMIN THEN 3 ELSE 2
                      IN  IF Len(operands) # want THEN ValueError
                          ELSE IF AnyError(v, 1..want) THEN ValueError
                          ELSE IF mnemonic = kwMIN
                               THEN [mnemonic |-> mnemonic, A |-> A,
                                     B |-> v[1], C |-> v[2], D |-> v[3]]
                               ELSE [mnemonic |-> mnemonic, A |-> A,
                                     B |-> v[1], C |-> v[2]]

(***************************************************************************)
(* src/assembler.py: the record writer of assemble                         *)
(***************************************************************************)
RecordLen == 11

RECURSIVE Zeros(_)
Zeros(n) == IF n <= 0 THEN <<>> ELSE <<0>> \o Zeros(n - 1)

RECURSIVE Reversed(_)
Reversed(q) == IF q = <<>> THEN <<>> ELSE Reversed(Tail(q)) \o <<Head(q)>>

\* pack with the byte order of '>I' and '>H'
pack_big_endian(v, width) ==
    IF v.neg \/ Len(v.mag) > width THEN StructError
    ELSE [data |-> Zeros(width - Len(v.mag)) \o Reversed(v.mag)]

\* struct.pack('<I', v) with width 4 and struct.pack('<H', v) with width 2:
\* struct.error unless 0 <= v < 256^width
pack(v, width) ==
    IF v.neg \/ Len(v.mag) > width THEN StructError
    ELSE [data |-> v.mag \o Zeros(width - Len(v.mag))]

\* the body of the write loop: the 11 bytes of one command, or struct.error
encode_record(cmd) ==
    LET a_byte == cmd.A % 8
        b_bytes == pack(cmd.B, 4)
        c_bytes == pack(cmd.C, 4)
        d_val == IF cmd.D # None THEN cmd.D ELSE PyNat(0)
        d_bytes == pack(d_val, 2)
    IN  IF IsError(b_bytes) \/ IsError(c_bytes) \/ IsError(d_bytes) THEN StructError
        ELSE [data |-> <<a_byte>> \o b_bytes.data \o c_bytes.data \o d_bytes.data]

\* the write loop with each record put in front of those written before it
RECURSIVE WriteRecordsPrepending(_, _, _)
WriteRecordsPrepending(cmds, k, data) ==
    IF k > Len(cmds) THEN [data |-> data, failed |-> 0]
    ELSE IF IsError(encode_record(cmds[k])) THEN [data |-> data, failed |-> k]
    ELSE WriteRecordsPrepending(cmds, k + 1, encode_record(cmds[k]).data \o data)

\* the write loop: the bytes written before the first command that cannot
\* be packed (the with block closes, and so flushes, the file on the way out)
RECURSIVE WriteRecords(_, _, _)
WriteRecords(cmds, k, data) ==
    IF k > Len(cmds) THEN [data |-> data, failed |-> 0]
    ELSE LET r == encode_record(cmds[k])
         IN  IF IsError(r) THEN [data |-> data, failed |-> k]
             ELSE WriteRecords(cmds, k + 1, data \o r.data)

\* f.readlines(): the lines of the text, each with its line terminator
readlines(text) ==
    LET ps == split(text, "\n")
        n  == Len(ps)
    IN  IF text = <<>> THEN <<>>
        ELSE [i \in 1..(IF ps[n] = <<>> THEN n - 1 ELSE n) |->
                 IF i < n THEN ps[i] \o <<"\n">> ELSE ps[i]]

\* assemble without self.ir.clear()
ir_kept(old) == old

\* self.ir.clear()
ir_clear(old) == <<>>

\* the parse loop of assemble: the IR, and the number of the line whose
\* exception ended the run (0 when every line was accepted)
RECURSIVE ParseLines(_, _, _)
ParseStep(lines, i, acc, cmd_ir) ==
    IF IsError(cmd_ir) THEN [ir |-> acc, errline |-> i]
    ELSE ParseLines(lines, i + 1, IF cmd_ir = None THEN acc ELSE Append(acc, cmd_ir))

ParseLines(lines, i, acc) ==
    IF i > Len(lines) THEN [ir |-> acc, errline |-> 0]
    ELSE ParseStep(lines, i, acc, parse_line(lines[i]))

(***************************************************************************)
(* src/assembler1.py: assemble_text                                        *)
(***************************************************************************)
\* str.splitlines()
splitlines(text) ==
    LET ps == split(text, "\n")
        n  == Len(ps)
    IN  IF text = <<>> THEN <<>>
        ELSE IF ps[n] = <<>> THEN SubSeq(ps, 1, n - 1) ELSE ps

RECURSIVE TextLoop(_, _, _)
TextStep(lines, i, acc, parsed) ==
    IF IsError(parsed) THEN [ir |-> acc, errline |-> i]
    ELSE TextLoop(lines, i + 1, IF parsed = None THEN acc ELSE Append(acc, parsed))

TextLoop(lines, i, acc) ==
    IF i > Len(lines) THEN [ir |-> acc, errline |-> 0]
    ELSE TextStep(lines, i, acc, assemble_line(lines[i]))

\* assemble_text: the list returned, or the line whose ValueError it raises
assemble_text(text) == TextLoop(splitlines(text), 1, <<>>)

(***************************************************************************)
(* Inputs                                                                  *)
(***************************************************************************)
\* the longest program, in lines, built from RunLines and TextLines
MaxLines == 2

\* the most operands on a line of the line catalogue (MIN takes three)
MaxOperands == 3

\* an operand token: its text, the int it spells (if any) and its form
Tok(text, val, form) == [text |-> text, val |-> val, form |-> form]

Invalid == [invalid |-> TRUE]

BaseToks == << Tok(<<"9","4","6">>, PyNat(946), "dec"), Tok(<<"1","3","3">>, PyNat(133), "dec"),
               Tok(<<"1","0","0","3">>, PyNat(1003), "dec"), Tok(<<"4","9","3">>, PyNat(493), "dec") >>

VariantToks ==
    { Tok(<<"0">>, PyNat(0), "dec"),
      Tok(<<"6","5","5","3","5">>, PyNat(65535), "dec"),
      Tok(<<"6","5","5","3","6">>, PyNat(65536), "dec"),
      Tok(<<"4","2","9","4","9","6","7","2","9","5">>, [neg |-> FALSE, mag |-> <<255, 255, 255, 255>>], "dec"),
      Tok(<<"4","2","9","4","9","6","7","2","9","6">>, [neg |-> FALSE, mag |-> <<0, 0, 0, 0, 1>>], "dec"),
      Tok(<<"-","1">>, PyNeg(1), "minus"),
      Tok(<<"1","_","0">>, PyNat(10), "underscore"),
      Tok(<<"0","x","1","0">>, PyNat(16), "hex"),
      Tok(<<>>, Invalid, "empty"),
      Tok(<<"a","b","c">>, Invalid, "junk") }

Base(n) == SubSeq(BaseToks, 1, n)

\* operand lists: the base operands with at most one of them replaced
OperandLists ==
    {<<>>} \cup
    UNION { {Base(n)} \cup { [Base(n) EXCEPT ![k] = t] : k \in 1..n, t \in VariantToks }
            : n \in 1..MaxOperands }

MnemonicTexts == { kwLOAD_CONST, kwREAD_MEM, kwWRITE_MEM, kwMIN, kwREAD, kwWRITE,
                   <<"m","i","n">>, <<"F","O","O">> }

CommentTexts == { <<>>, <<" ",";"," ","c">>, <<" ","#"," ","c">> }

\* whole lines that are not of the form mnemonic, operands, comment
SpecialTexts == { <<>>, <<" "," ">>, <<";"," ","c">>, <<"#"," ","c">>, <<"f","o","o"," ","b","a","r">>, <<"x"," ","="," ","5">> }

\* a line of the catalogue: the mnemonic, the separator after it, the
\* operand tokens (written with ", " between them) and the comment
Shapes ==
    [mn : MnemonicTexts, sep : {<<",">>, <<" ">>}, toks : OperandLists, cmt : CommentTexts]
    \cup [mn : SpecialTexts, sep : {<<>>}, toks : {<<>>}, cmt : {<<>>}]

RECURSIVE JoinToks(_)
JoinToks(toks) ==
    IF toks = <<>> THEN <<>>
    ELSE IF Len(toks) = 1 THEN toks[1].text
    ELSE toks[1].text \o <<",", " ">> \o JoinToks(Tail(toks))

Statement(sh) == sh.mn \o sh.sep \o JoinToks(sh.toks)

LineOf(sh) == Statement(sh) \o sh.cmt

RECURSIVE Join(_)
Join(lines) ==
    IF lines = <<>> THEN <<>>
    ELSE IF Len(lines) = 1 THEN lines[1]
    ELSE lines[1] \o <<"\n">> \o Join(Tail(lines))

SeqsUpTo(S, n) == UNION { [1..k -> S] : k \in 0..n }

\* the program of test_assemble_file, as the test writes it
TestFile == Join(<< <<"L","O","A","D","_","C","O","N","S","T"," ","9","4","6",","," ","1","3","3">>, <<"R","E","A","D","_","M","E","M"," ","6","4","9",","," ","7","9","4">>,
                    <<"W","R","I","T","E","_","M","E","M"," ","8","4","1",","," ","5","7","5">>, <<"M","I","N"," ","4","9","3",","," ","3","3","3",","," ","1","0","0","3">> >>)

\* four commands in the syntax parse_line splits: a comma after the name
CommaFile == Join(<< <<"L","O","A","D","_","C","O","N","S","T",","," ","9","4","6",","," ","1","3","3">>, <<"R","E","A","D","_","M","E","M",","," ","6","4","9",","," ","7","9","4">>,
                     <<"W","R","I","T","E","_","M","E","M",","," ","5","7","5",","," ","8","4","1">>, <<"M","I","N",","," ","4","9","3",","," ","3","3","3",","," ","1","0","0","3">> >>)

\* comment and blank lines between two commands, and a final newline
SkipFile == Join(<< <<";"," ","c">>, <<"M","I","N",","," ","0",","," ","2",","," ","3">>, <<>>, <<"L","O","A","D","_","C","O","N","S","T",","," ","9","4","6",","," ","1","3","3">>, <<>> >>)

\* a second command whose C is 2^32
OverflowFile == Join(<< <<"L","O","A","D","_","C","O","N","S","T",","," ","9","4","6",","," ","1","3","3">>, <<"W","R","I","T","E","_","M","E","M",","," ","1",","," ","4","2","9","4","9","6","7","2","9","6">> >>)

XEq5 == <<"x"," ","="," ","5">>

RunLines == { <<"L","O","A","D","_","C","O","N","S","T",","," ","9","4","6",","," ","1","3","3">>, <<"f","o","o"," ","b","a","r">> }

Programs ==
    { Join(ls) : ls \in SeqsUpTo(RunLines, MaxLines) }
    \cup { TestFile, CommaFile, SkipFile, OverflowFile, XEq5 }

TextLines == { <<"L","O","A","D","_","C","O","N","S","T"," ","5",","," ","1","0","0">> }

\* a program of assembler1.py: its mnemonics, comments of both kinds
AsmText == Join(<< <<"M","I","N"," ","1",","," ","2",","," ","3"," ",";"," ","c">>, <<"#"," ","c">>, <<"R","E","A","D"," ","0","x","1","0",","," ","2">> >>)

Texts == { Join(ls) : ls \in SeqsUpTo(TextLines, MaxLines) } \cup { AsmText, XEq5 }

(***************************************************************************)
(* State                                                                   *)
(***************************************************************************)
VARIABLES
    ir,       \* self.ir of the UVBMAssembler instance
    file,     \* the file at output_path: [exists, data]
    fe,       \* the entry point called last: "none", "assemble", "assemble_text"
    src,      \* the text that call was given
    status,   \* how it ended: "ok", "exit" (sys.exit(1) after a line's
              \* exception), "struct.error", "ValueError"
    errline,  \* the number of the line that ended it, or 0
    ret,      \* the list assemble_text returned
    wrote,    \* the bytes the call wrote to output_path
    ref,      \* an earlier call, as test_assemble_file would record it
    shape,    \* line-level checks: the line under test, by its parts
    line,     \* its text
    fn,       \* the function applied to it: "none", "parse_line", "assemble_line"
    res,      \* what the function returned or raised
    rec       \* the record the write loop makes of res

runVars == <<ir, file, fe, src, status, errline, ret, wrote, ref>>

lineVars == <<shape, line, fn, res, rec>>

vars == <<ir, file, fe, src, status, errline, ret, wrote, ref,
          shape, line, fn, res, rec>>

NoFile == [exists |-> FALSE, data |-> <<>>]

NoRef == [set |-> FALSE]

\* UVBMAssembler(): self.ir = [], and nothing at output_path yet
InitRun ==
    /\ ir = <<>>
    /\ file = NoFile
    /\ fe = "none"
    /\ src = <<>>
    /\ status = "ok"
    /\ errline = 0
    /\ ret = <<>>
    /\ wrote = <<>>
    /\ ref = NoRef

NoLine == [mn |-> <<>>, sep |-> <<>>, toks |-> <<>>, cmt |-> <<>>]

Init ==
    /\ InitRun
    /\ shape = NoLine
    /\ line = <<>>
    /\ fn = "none"
    /\ res = None
    /\ rec = None

\* what a caller sees of the call just made
Observation ==
    [set |-> TRUE, fe |-> fe, src |-> src, status |-> status, errline |-> errline,
     ir |-> IF fe = "assemble" THEN ir ELSE ret, wrote |-> wrote, between |-> FALSE]

\* the recorded call, once another text has been assembled after it
Later(text, entry) ==
    IF ref.set /\ (ref.src # text \/ ref.fe # entry)
    THEN [ref EXCEPT !.between = TRUE]
    ELSE ref

(***************************************************************************)
(* UVBMAssembler.assemble(input_path, output_path), on an input file that  *)
(* holds text, from self.ir = old_ir and with old_file at output_path.  A  *)
(* line's exception is caught, printed and ends the run by sys.exit(1)     *)
(* before output_path is opened; struct.error leaves the with block, which *)
(* closes the file with what was written.                                  *)
(***************************************************************************)
WriteOutput(p, w) ==
    [ir |-> p.ir, errline |-> 0,
     status |-> IF w.failed = 0 THEN "ok" ELSE "struct.error",
     file |-> [exists |-> TRUE, data |-> w.data], wrote |-> w.data]

AfterParse(p, old_file) ==
    IF p.errline # 0
    THEN [ir |-> p.ir, errline |-> p.errline, status |-> "exit",
          file |-> old_file, wrote |-> <<>>]
    ELSE WriteOutput(p, WriteRecords(p.ir, 1, <<>>))

assemble(text, old_ir, old_file) ==
    AfterParse(ParseLines(readlines(text), 1, ir_clear(old_ir)), old_file)

Assemble(text) ==
    \E r \in {assemble(text, ir, file)} :
        /\ fe' = "assemble"
        /\ src' = text
        /\ ir' = r.ir
        /\ errline' = r.errline
        /\ status' = r.status
        /\ file' = r.file
        /\ wrote' = r.wrote
        /\ ret' = <<>>
        /\ ref' = Later(text, "assemble")
        /\ UNCHANGED lineVars

(***************************************************************************)
(* assemble_text(text) of assembler1.py: the list it returns, or the       *)
(* ValueError of its first bad line                                        *)
(***************************************************************************)
AssembleText(text) ==
    \E r \in {assemble_text(text)} :
        /\ fe' = "assemble_text"
        /\ src' = text
        /\ errline' = r.errline
        /\ status' = IF r.errline = 0 THEN "ok" ELSE "ValueError"
        /\ ret' = IF r.errline = 0 THEN r.ir ELSE <<>>
        /\ wrote' = <<>>
        /\ ref' = Later(text, "assemble_text")
        /\ UNCHANGED <<ir, file>>
        /\ UNCHANGED lineVars

\* the caller keeps what it saw of the call just made
Remember ==
    /\ fe # "none"
    /\ ref' = Observation
    /\ UNCHANGED <<ir, file, fe, src, status, errline, ret, wrote>>
    /\ UNCHANGED lineVars

Next ==
    \/ \E text \in Programs : Assemble(text)
    \/ \E text \in Texts : AssembleText(text)
    \/ Remember

Spec == Init /\ [][Next]_vars

(***************************************************************************)
(* The functions of one line, each applied once to a line of the catalogue *)
(***************************************************************************)
InitLine ==
    /\ InitRun
    /\ shape \in Shapes
    /\ line = LineOf(shape)
    /\ fn = "none"
    /\ res = None
    /\ rec = None

IsInstr(r) == "A" \in DOMAIN r

CallParseLine ==
    /\ fn = "none"
    /\ fn' = "parse_line"
    /\ res' = parse_line(line)
    /\ UNCHANGED <<shape, line, rec>>
    /\ UNCHANGED runVars

CallAssembleLine ==
    /\ fn = "none"
    /\ fn' = "assemble_line"
    /\ res' = assemble_line(line)
    /\ UNCHANGED <<shape, line, rec>>
    /\ UNCHANGED runVars

\* the write loop's body on the command parse_line returned
EncodeRecord ==
    /\ fn = "parse_line"
    /\ IsInstr(res)
    /\ rec = None
    /\ rec' = encode_record(res)
    /\ UNCHANGED <<shape, line, fn, res>>
    /\ UNCHANGED runVars

NextLine == CallParseLine \/ CallAssembleLine \/ EncodeRecord

SpecLine == InitLine /\ [][NextLine]_vars

(***************************************************************************)
(* Reading a record back                                                   *)
(***************************************************************************)
\* an unsigned little-endian field as a Python int
Unsigned_LE(bytes) == [neg |-> FALSE, mag |-> Normal(bytes)]

\* the fields of an 11-byte record
DecodeRecord(bytes) ==
    [A |-> bytes[1],
     B |-> Unsigned_LE(SubSeq(bytes, 2, 5)),
     C |-> Unsigned_LE(SubSeq(bytes, 6, 9)),
     D |-> Unsigned_LE(SubSeq(bytes, 10, 11))]

\* 0 <= v < 256^width
Fits(v, width) == ~v.neg /\ Len(v.mag) <= width

\* B and C in 0..2^32-1, D absent or in 0..2^16-1
InRange(cmd) ==
    /\ Fits(cmd.B, 4)
    /\ Fits(cmd.C, 4)
    /\ cmd.D = None \/ Fits(cmd.D, 2)

\* the k-th record of a byte stream
RecordAt(data, k) == SubSeq(data, RecordLen * (k - 1) + 1, RecordLen * k)

\* the instructions of the statement lines of a source, in line order
InstrsOf(text) ==
    SelectSeq([i \in 1..Len(readlines(text)) |-> parse_line(readlines(text)[i])], IsInstr)

(***************************************************************************)
(* C1                                                                      *)
(***************************************************************************)
Encoded == fn = "parse_line" /\ IsInstr(res) /\ rec # None

FieldsRoundTrip ==
    /\ ~IsError(rec)
    /\ Len(rec.data) = RecordLen
    /\ DecodeRecord(rec.data).A = res.A % 8
    /\ DecodeRecord(rec.data).A = res.A
    /\ DecodeRecord(rec.data).B = res.B
    /\ DecodeRecord(rec.data).C = res.C
    /\ res.D # None => DecodeRecord(rec.data).D = res.D
    /\ res.D = None => DecodeRecord(rec.data).D = PyNat(0)

\* C1 as amended: the record of an instruction whose B and C are in
\* 0..2^32-1 and whose D is absent or in 0..2^16-1 is 11 bytes that decode
\* to the instruction's opcode, B and C, and to its D, or to 0 when it has
\* no D.
C1_RoundTrip == (Encoded /\ InRange(res)) => FieldsRoundTrip

\* C1 as stated: moreover D decodes as 0 exactly when the instruction has
\* no D.
C1_ZeroExactlyWhenNoD ==
    (Encoded /\ InRange(res)) =>
        /\ FieldsRoundTrip
        /\ DecodeRecord(rec.data).D = PyNat(0) <=> res.D = None

\* an instruction with B = 2^32 - 1 has been encoded
C1_Witness ==
    /\ Encoded
    /\ InRange(res)
    /\ res.B.mag = <<255, 255, 255, 255>>
    /\ ~IsError(rec)

(***************************************************************************)
(* C2                                                                      *)
(***************************************************************************)
\* what a record holds of an instruction: its D, or 0 for None
FieldsOf(cmd) ==
    [A |-> cmd.A, B |-> cmd.B, C |-> cmd.C,
     D |-> IF cmd.D = None THEN PyNat(0) ELSE cmd.D]

\* C2: after a successful run of assemble the output file holds exactly
\* 11 * len(ir) bytes, its k-th record is the encoding of the k-th IR
\* instruction, and the IR is the instructions of the source's statement
\* lines in line order.
C2_StreamLayout ==
    (fe = "assemble" /\ status = "ok") =>
        /\ file.exists
        /\ Len(file.data) = RecordLen * Len(ir)
        /\ \A k \in 1..Len(ir) : DecodeRecord(RecordAt(file.data, k)) = FieldsOf(ir[k])
        /\ ir = InstrsOf(src)

\* a successful run on a source with skipped lines and two different
\* instructions
C2_Witness ==
    /\ fe = "assemble"
    /\ status = "ok"
    /\ Len(ir) >= 2
    /\ ir[1] # ir[2]
    /\ Len(readlines(src)) > Len(ir)
    /\ Len(file.data) = RecordLen * Len(ir)

(***************************************************************************)
(* C3                                                                      *)
(***************************************************************************)
\* the ints of the operands assembler.py sees: the fields after the first
\* comma (with a space after the name, the first token is in the name's
\* field)
OperandVals ==
    LET ops == IF shape.sep = <<",">> THEN shape.toks ELSE Tail(shape.toks)
    IN  [i \in 1..Len(ops) |-> ops[i].val]

\* assembler.py: LOAD_CONST <addr_dest>, <const>; READ_MEM <addr_dest>,
\* <addr_src>; WRITE_MEM <addr_src>, <addr_dest>; MIN <addr_result>,
\* <addr_op1>, <addr_op2>
ConventionOfParseLine ==
    /\ "D" \in DOMAIN res
    /\ res.A = 3 => /\ upper(shape.mn) = kwLOAD_CONST
                    /\ res.B = OperandVals[2] /\ res.C = OperandVals[1] /\ res.D = None
    /\ res.A = 0 => /\ upper(shape.mn) = kwREAD_MEM
                    /\ res.B = OperandVals[2] /\ res.C = OperandVals[1] /\ res.D = None
    /\ res.A = 5 => /\ upper(shape.mn) = kwWRITE_MEM
                    /\ res.B = OperandVals[1] /\ res.C = OperandVals[2] /\ res.D = None
    /\ res.A = 7 => /\ upper(shape.mn) = kwMIN
                    /\ res.B = OperandVals[2] /\ res.C = OperandVals[3]
                    /\ res.D = OperandVals[1]

IsWritten(tok) == tok.text # <<>>

\* the ints of the operands assembler1.py sees: it drops the empty ones
WrittenVals ==
    [i \in 1..Len(SelectSeq(shape.toks, IsWritten)) |->
        SelectSeq(shape.toks, IsWritten)[i].val]

\* assembler1.py: LOAD_CONST <CONST>, <ADDRESS>; READ <B>, <C>; WRITE <B>,
\* <C>; MIN <B>, <C>, <D>
ConventionOfAssembleLine ==
    /\ res.A = 3 <=> upper(shape.mn) = kwLOAD_CONST
    /\ res.A = 0 <=> upper(shape.mn) = kwREAD
    /\ res.A = 5 <=> upper(shape.mn) = kwWRITE
    /\ res.A = 7 <=> upper(shape.mn) = kwMIN
    /\ res.B = WrittenVals[1]
    /\ res.C = WrittenVals[2]
    /\ res.A = 7 <=> "D" \in DOMAIN res
    /\ res.A = 7 => res.D = WrittenVals[3]

\* C3: every instruction a front-end handler produces has opcode 0, 3, 5
\* or 7; LOAD_CONST has B = the constant and C = the destination, READ and
\* WRITE have B = the source and C = the destination, MIN has B and C = the
\* operands and D = the result; D is absent for every opcode but MIN.
C3_FieldConvention ==
    IsInstr(res) =>
        /\ res.A \in {0, 3, 5, 7}
        /\ fn = "parse_line" => ConventionOfParseLine
        /\ fn = "assemble_line" => ConventionOfAssembleLine

\* parse_line has produced a MIN whose result address is the first operand
C3_Witness ==
    /\ fn = "parse_line"
    /\ IsInstr(res)
    /\ res.A = 7
    /\ res.D = PyNat(946)
    /\ res.B = PyNat(133)

(***************************************************************************)
(* C4                                                                      *)
(***************************************************************************)
\* C4: when an instruction of the program has B or C outside 0..2^32-1 or
\* D outside 0..2^16-1, assemble reports the error before any record of
\* the program is emitted.
C4_RangeCheckedBeforeEmit ==
    (fe = "assemble" /\ errline = 0 /\ \E k \in 1..Len(ir) : ~InRange(ir[k])) =>
        /\ status = "struct.error"
        /\ wrote = <<>>

(***************************************************************************)
(* C5                                                                      *)
(***************************************************************************)
\* C5: a run of assemble either accepts and encodes every line, and the
\* output holds the whole 11 * n byte stream, or it aborts and no bytes of
\* the program are written.
C5_AllOrNothing ==
    fe = "assemble" =>
        \/ /\ status = "ok"
           /\ Len(wrote) = RecordLen * Len(InstrsOf(src))
        \/ /\ status # "ok"
           /\ wrote = <<>>

(***************************************************************************)
(* C6                                                                      *)
(***************************************************************************)
Instr(a, b, c, d) == [A |-> a, B |-> PyNat(b), C |-> PyNat(c), D |-> d]

\* expected_ir of test_assemble_file
ExpectedIR ==
    << Instr(3, 133, 946, None), Instr(0, 794, 649, None),
       Instr(5, 575, 841, None), Instr(7, 333, 1003, PyNat(493)) >>

\* C6: assembling the file of test_assemble_file succeeds and leaves
\* expected_ir in ir, one record per line in source order.
C6_TestFileAssembles ==
    (fe = "assemble" /\ src = TestFile) => (status = "ok" /\ ir = ExpectedIR)

(***************************************************************************)
(* C7                                                                      *)
(***************************************************************************)
IsLoadThenWrite(code) ==
    /\ Len(code) = 2
    /\ code[1].A = 3 /\ code[1].B = PyNat(5) /\ code[1].C = PyNat(100)
    /\ code[2].A = 5 /\ code[2].B = PyNat(100) /\ code[2].C = PyNat(101)

C8_CommentsStripped ==
    /\ fn = "parse_line" => res = parse_line(BeforeComment(line))
    /\ fn = "assemble_line" => res = assemble_line(BeforeComment(line))
    /\ (fn # "none" /\ strip(BeforeComment(line)) = <<>>) => res = None

(***************************************************************************)
(* C9                                                                      *)
(***************************************************************************)
\* C9: an operand token with a leading -, with an underscore, or empty is
\* rejected and never part of a line that produces an instruction.
C9_NumeralForms ==
    IsInstr(res) =>
        \A i \in 1..Len(shape.toks) : shape.toks[i].form \in {"dec", "hex"}

(***************************************************************************)
(* C10                                                                     *)
(***************************************************************************)
\* C10: a call given the same text as an earlier call through the same
\* entry point ends the same way with the same IR and writes the same
\* bytes, whatever was assembled in between on the same instance; the IR
\* of a run of assemble holds only the instructions of that run's source.
C10_Deterministic ==
    /\ (ref.set /\ ref.fe = fe /\ ref.src = src) =>
           /\ ref.status = status
           /\ ref.errline = errline
           /\ ref.ir = IF fe = "assemble" THEN ir ELSE ret
           /\ ref.wrote = wrote
    /\ fe = "assemble" => Len(ir) <= Len(readlines(src))

\* the recorded source has been assembled again on the same instance after
\* another source
C10_Witness ==
    /\ ref.set
    /\ ref.between
    /\ ref.fe = "assemble"
    /\ fe = "assemble"
    /\ src = ref.src
    /\ ir # <<>>
    /\ wrote # <<>>

=============================================================================
